---- MODULE Spec2Model ----
(***************************************************************************)
(* SimCSE sentence-encoder objectives (src/models.py): the supervised,     *)
(* unsupervised and prefix-tuned supervised modules.  The model covers the *)
(* per-process forward pass (encode, pool, all_gather, overwrite of the    *)
(* own slot, concatenation, cosine scoring, labels, cross-entropy), the    *)
(* embedding query, and the prefix generator's reshape/permute/split.      *)
(*                                                                         *)
(* Real-valued arithmetic is kept symbolic: a cosine similarity is the     *)
(* pair of its two argument vectors, a loss is the logits with the target  *)
(* picked out.  Learned parameters are fixed integer stand-ins.            *)
(***************************************************************************)
EXTENDS Integers, Sequences, FiniteSets, TLC

\* ----------------------------------------------------------------- bounds
MaxWorld == 2
MaxBatch == 2
MaxCalls == 2
SeqLen == 2
MaxHidden == 4
MaxHeads == 3
MaxLayers == 2
MaxPreseq == 2

\* ------------------------------------------------------ program constants
\* self.temp=0.05, kept as the fraction 5/100
temp == <<5, 100>>
\* nn.Dropout(p=0.0)
DropoutP == 0

VARIABLES
  active,          \* dist.is_initialized()
  world,           \* dist.get_world_size()
  variant,         \* variant[r]: the module class process r runs
  bsz,             \* bsz[s]: batch size of stream s handed to forward
  cfg,             \* base_config and preseqlen of the prefix module
  pc,              \* pc[r]: where process r is in forward
  calls,           \* calls[r]: forward calls process r has begun
  gi,              \* gi[r]: index of the next stream to all_gather
  repr,            \* repr[r][s]: local pooled representation repr_<s>
  repr_list,       \* repr_list[r][s]: the list repr_list_<s>
  gathered,        \* gathered[r][s]: repr_<s> as the scorer reads it
  sim,             \* sim[r]: similarity matrix
  label,           \* label[r]: label vector
  loss,            \* loss[r]: returned loss
  issued,          \* issued[r]: the all_gather calls process r has issued, in order
  emb,             \* emb[r]: result of get_embedding
  batch_size,      \* argument of the last get_prefix call
  past_key_values  \* what the last get_prefix call returned

vars == <<active, world, variant, bsz, cfg, pc, calls, gi, repr, repr_list,
          gathered, sim, label, loss, issued, emb, batch_size, past_key_values>>

distVars == <<active, world, variant, bsz, pc, calls, gi, repr, repr_list,
              gathered, sim, label, loss, issued, emb>>

prefixVars == <<batch_size, past_key_values>>

\* ---------------------------------------------------------- n-d tensors
\* A tensor of the prefix generator: its shape and its elements in
\* row-major order, data[0 .. numel-1].
\* Product of shape[i], ..., shape[Len(shape)]: the row-major stride of
\* axis i-1.
RECURSIVE ProdFrom(_, _)
ProdFrom(shape, i) == IF i > Len(shape) THEN 1 ELSE shape[i] * ProdFrom(shape, i + 1)

Prod(shape) == ProdFrom(shape, 1)

numel(t) == Prod(t.shape)

\* Row-major offset of index tuple idx (0-based entries) in shape.
RECURSIVE OffsetFrom(_, _, _)
OffsetFrom(shape, idx, i) ==
  IF i > Len(shape) THEN 0
  ELSE idx[i] * ProdFrom(shape, i + 1) + OffsetFrom(shape, idx, i + 1)

Offset(shape, idx) == OffsetFrom(shape, idx, 1)

\* Index tuple of row-major offset k in shape.
Unravel(shape, k) ==
  [i \in 1..Len(shape) |-> (k \div ProdFrom(shape, i + 1)) % shape[i]]

At(t, idx) == t.data[Offset(t.shape, idx)]

\* Mutant: the element count is not checked; surplus elements are dropped.
reshape_unchecked(t, shape) ==
  [err |-> FALSE, shape |-> shape,
   data |-> [k \in 0..(Prod(shape) - 1) |-> t.data[k]]]

\* torch.Tensor.reshape: the same elements in the same order under a new
\* shape; a shape whose element count differs raises RuntimeError.
reshape(t, shape) ==
  IF Prod(shape) # numel(t)
  THEN [err |-> TRUE, shape |-> <<>>, data |-> <<>>]
  ELSE [err |-> FALSE, shape |-> shape,
        data |-> [k \in 0..(Prod(shape) - 1) |-> t.data[k]]]

\* The axis of the result that axis j (1-based) of the input becomes under
\* permute(dims).
AxisTo(dims, j) == CHOOSE k \in 1..Len(dims) : dims[k] + 1 = j

PermutedShape(t, dims) == [k \in 1..Len(dims) |-> t.shape[dims[k] + 1]]

\* The index into the input of the element at row-major offset k of the result.
PermutedSource(t, dims, k) ==
  [j \in 1..Len(dims) |-> Unravel(PermutedShape(t, dims), k)[AxisTo(dims, j)]]

\* Mutant: the second and fourth entries of dims are exchanged.
permute_swapped(t, dims) ==
  LET d2 == [k \in 1..Len(dims) |->
               IF k = 2 THEN dims[4] ELSE IF k = 4 THEN dims[2] ELSE dims[k]]
  IN [shape |-> PermutedShape(t, d2),
      data |-> [k \in 0..(numel(t) - 1) |-> At(t, PermutedSource(t, d2, k))]]

\* torch.Tensor.permute(dims): axis k of the result is axis dims[k] of t
\* (dims 0-based, as in the source).
permute(t, dims) ==
  [shape |-> PermutedShape(t, dims),
   data |-> [k \in 0..(numel(t) - 1) |-> At(t, PermutedSource(t, dims, k))]]

\* torch.Tensor.split(n): consecutive chunks of n along axis 0, the last
\* one shorter when n does not divide the axis.
split(t, n) ==
  LET d0 == t.shape[1]
      inner == ProdFrom(t.shape, 2)
      cnt == (d0 + n - 1) \div n
      size(c) == IF c * n <= d0 THEN n ELSE d0 - (c - 1) * n
  IN [c \in 1..cnt |->
        [shape |-> <<size(c)>> \o Tail(t.shape),
         data |-> [k \in 0..(size(c) * inner - 1) |-> t.data[(c - 1) * n * inner + k]]]]

\* nn.Dropout(p=0.0): every element is kept and scaled by 1/(1-p) = 1.
dropout(t) == IF DropoutP = 0 THEN t ELSE [t EXCEPT !.data = [k \in DOMAIN t.data |-> 0]]

\* ----------------------------------------------------- prefix generator
\* self.embd: row idx of the (preseqlen x hidden_size) embedding table.
embd(c, idx) == [e \in 0..(c.hidden_size - 1) |-> idx * c.hidden_size + e]

ReparamDim(c) == 2 * c.num_hidden_layers * c.hidden_size

\* self.reparam: Linear-Tanh-Linear-Tanh-Linear, hidden_size ->
\* 2*num_hidden_layers*hidden_size.  The weights are learned; the stand-in
\* gives every output channel of every distinct input a distinct value.
reparam(c, x) == [j \in 0..(ReparamDim(c) - 1) |-> x[0] * ReparamDim(c) + j]

\* preseq after lines 196-200: shape (batch_size, preseqlen, 2*L*H).
ReparamOut(c, B) ==
  LET shp == <<B, c.preseqlen, ReparamDim(c)>>
  IN [shape |-> shp,
      data |-> [k \in 0..(Prod(shp) - 1) |->
                  LET idx == Unravel(shp, k)
                  IN reparam(c, embd(c, idx[2]))[idx[3]]]]

\* int(hidden_size/num_attention_heads)
head_dim(c) == c.hidden_size \div c.num_attention_heads

\* get_prefix, lines 196-214.  Each intermediate tensor is bound once, as
\* the element of a singleton set, and handed on as a value.
get_prefix(c, B) ==
  CHOOSE ret \in
    {IF preseq.err
     THEN [status |-> "error", kv |-> <<>>]
     ELSE CHOOSE ok \in
            {[status |-> "ok", kv |-> split(dropped, 2)] :
               dropped \in {dropout(permuted) :
                 permuted \in {permute(preseq, <<2, 0, 3, 1, 4>>)}}} : TRUE
       : preseq \in
           {reshape(out, <<B, c.preseqlen, 2 * c.num_hidden_layers,
                           c.num_attention_heads, head_dim(c)>>) :
              out \in {ReparamOut(c, B)}}} : TRUE

Configs ==
  [hidden_size : 1..MaxHidden, num_attention_heads : 1..MaxHeads,
   num_hidden_layers : 1..MaxLayers, preseqlen : 1..MaxPreseq]

\* A call of get_prefix (from get_embedding, line 189, or forward, line 218).
GetPrefix ==
  /\ \E B \in 1..MaxBatch :
       /\ batch_size' = B
       /\ past_key_values' = get_prefix(cfg, B)
  /\ UNCHANGED <<cfg, distVars>>

\* ------------------------------------------------------------- encoder
Variants == {"SupervisedSimCSE", "UnsupervisedSimCSE", "PrefixSupervisedSimCSE"}

Streams == {"sent", "pos", "neg"}

\* Mutant: every variant encodes and gathers three streams.
StreamsOf_three(v) == <<"sent", "pos", "neg">>

\* The representation streams a variant's forward takes, in the order the
\* code gathers them.
StreamsOf(v) ==
  IF v = "UnsupervisedSimCSE" THEN <<"sent", "pos">> ELSE <<"sent", "pos", "neg">>

StreamIdx(s) == IF s = "sent" THEN 0 ELSE IF s = "pos" THEN 1 ELSE 2

Ranks == 0..(world - 1)

\* The config the non-prefix specifications run with.
BaseConfig ==
  [hidden_size |-> 2, num_attention_heads |-> 2, num_hidden_layers |-> 1, preseqlen |-> 1]

\* The batch process r passes as stream s in its c-th forward call: one
\* token id per example, distinct over processes, streams, rows and calls.
Batch(r, s, c) ==
  [i \in 1..bsz[s] |-> ((c * MaxWorld + r) * 3 + StreamIdx(s)) * MaxBatch + i]

NoPrefix == [status |-> "none", kv |-> <<>>]

\* The external encoder, pretrained(x) or pretrained(x, past_key_values=prefix):
\* last_hidden_state[b][t] is a hidden vector determined by the example, the
\* position and whether a prefix was injected.  A prefix built for another
\* batch size cannot be prepended to the keys and values of x: the encoder
\* raises.
pretrained(x, prefix) ==
  LET pm == IF prefix.status = "none" THEN 0 ELSE 1
      H == cfg.hidden_size
  IN IF prefix.status = "ok" /\ prefix.kv[1].shape[2] # Len(x)
     THEN [err |-> TRUE, last_hidden_state |-> <<>>]
     ELSE [err |-> FALSE,
           last_hidden_state |->
             [b \in 1..Len(x) |->
                [t \in 0..(SeqLen - 1) |->
                   [d \in 1..H |-> ((x[b] * SeqLen + t) * 2 + pm) * H + d]]]]

\* x.last_hidden_state[:,0,:], one gradient-connected row per example.
FirstToken(x) ==
  [b \in 1..Len(x.last_hidden_state) |-> [v |-> x.last_hidden_state[b][0], g |-> TRUE]]

\* Sum of the first n entries of vector v.
RECURSIVE SumTo(_, _)
SumTo(v, n) == IF n = 0 THEN 0 ELSE v[n] + SumTo(v, n - 1)

\* self.mlp = nn.Linear(hidden_size, hidden_size) of the unsupervised
\* variant, out[d] = sum_e W[d][e]*v[e] + bias[d]; the learned parameters
\* are the stand-ins W[d][e] = 1 + (d = e), bias[d] = d.
mlp(t) ==
  [b \in 1..Len(t) |->
     [v |-> [d \in 1..Len(t[b].v) |-> t[b].v[d] + SumTo(t[b].v, Len(t[b].v)) + d],
      g |-> TRUE]]

SupervisedSimCSE_pooler(x) == FirstToken(x)

UnsupervisedSimCSE_pooler(x) == mlp(FirstToken(x))

PrefixSupervisedSimCSE_pooler(x) == FirstToken(x)

pooler(v, x) ==
  IF v = "UnsupervisedSimCSE" THEN UnsupervisedSimCSE_pooler(x)
  ELSE IF v = "SupervisedSimCSE" THEN SupervisedSimCSE_pooler(x)
  ELSE PrefixSupervisedSimCSE_pooler(x)

\* get_embedding of each variant.
SupervisedSimCSE_get_embedding(x) ==
  [err |-> FALSE, out |-> SupervisedSimCSE_pooler(pretrained(x, NoPrefix))]

\* Mutant: the embedding query goes through the training pooler.
UnsupervisedSimCSE_get_embedding_pooled(x) ==
  [err |-> FALSE, out |-> UnsupervisedSimCSE_pooler(pretrained(x, NoPrefix))]

UnsupervisedSimCSE_get_embedding(x) ==
  [err |-> FALSE, out |-> FirstToken(pretrained(x, NoPrefix))]

PrefixSupervisedSimCSE_get_embedding(x) ==
  LET prefix == get_prefix(cfg, Len(x))
      h == IF prefix.status = "ok" THEN pretrained(x, prefix)
           ELSE [err |-> TRUE, last_hidden_state |-> <<>>]
  IN IF h.err THEN [err |-> TRUE, out |-> <<>>]
     ELSE [err |-> FALSE, out |-> PrefixSupervisedSimCSE_pooler(h)]

get_embedding(v, x) ==
  IF v = "UnsupervisedSimCSE" THEN UnsupervisedSimCSE_get_embedding(x)
  ELSE IF v = "SupervisedSimCSE" THEN SupervisedSimCSE_get_embedding(x)
  ELSE PrefixSupervisedSimCSE_get_embedding(x)

\* Encoding and pooling of every stream the variant uses, given the prefix
\* (lines 36-44, 112-118, 221-229).
EncodeAndPool(v, r, c, prefix) ==
  LET enc(s) == IF prefix.status = "error"
                THEN [err |-> TRUE, last_hidden_state |-> <<>>]
                ELSE pretrained(Batch(r, s, c), prefix)
      used == {StreamsOf(v)[k] : k \in 1..Len(StreamsOf(v))}
  IN IF \E s \in used : enc(s).err
     THEN [err |-> TRUE, out |-> [s \in Streams |-> <<>>]]
     ELSE [err |-> FALSE,
           out |-> [s \in Streams |-> IF s \in used THEN pooler(v, enc(s)) ELSE <<>>]]

\* The first half of forward (lines 35-44, 111-118, 217-229): the local
\* pooled representation of every stream of process r's c-th call.  The
\* prefix variant first builds the prefix for the sentence batch's size.
LocalRepr(v, r, c) ==
  CHOOSE ret \in
    {EncodeAndPool(v, r, c, prefix) :
       prefix \in {IF v = "PrefixSupervisedSimCSE"
                   THEN get_prefix(cfg, Len(Batch(r, "sent", c)))
                   ELSE NoPrefix}} : TRUE

\* --------------------------------------------------- representation gatherer
\* torch.zeros_like(t): same shape, zeros, no gradient path.
zeros_like(t) ==
  [b \in 1..Len(t) |-> [v |-> [d \in 1..Len(t[b].v) |-> 0], g |-> FALSE]]

\* t.contiguous() as handed to the collective: the values.
contiguous(t) == [b \in 1..Len(t) |-> t[b].v]

\* Mutant: the exchange leaves the placeholders as allocated.
Received_unfilled(data) ==
  [b \in 1..Len(data) |-> [v |-> [d \in 1..Len(data[b]) |-> 0], g |-> FALSE]]

\* What all_gather writes into a placeholder: the values received, with no
\* gradient path.
Received(data) == [b \in 1..Len(data) |-> [v |-> data[b], g |-> FALSE]]

\* Mutant: concatenation in descending rank order.
RECURSIVE cat_descending(_, _)
cat_descending(list, n) ==
  IF n = 0 THEN <<>> ELSE list[n - 1] \o cat_descending(list, n - 1)

\* torch.cat(list, dim=0) over list[0], ..., list[n-1].
RECURSIVE cat(_, _)
cat(list, n) == IF n = 0 THEN <<>> ELSE cat(list, n - 1) \o list[n - 1]

\* Mutant: the local representation is written to slot 0 on every rank.
OwnSlot_zero(r) == 0

\* dist.get_rank(): the index the "Grad Fn" lines write the local
\* representation to.
OwnSlot(r) == r

\* Mutant: odd ranks gather their streams in reverse order.
GatherStream_byRank(r) ==
  LET o == StreamsOf(variant[r])
  IN IF r % 2 = 1 THEN o[Len(o) + 1 - gi[r]] ELSE o[gi[r]]

\* The stream of process r's next all_gather: the calls are issued in the
\* order sentence, positive, negative.
GatherStream(r) == StreamsOf(variant[r])[gi[r]]

\* ------------------------------------------------------- contrastive scorer
\* self.cos_sim(a.unsqueeze(1), c.unsqueeze(0))/self.temp: the full
\* Len(a) x Len(c) matrix, entry [i][j] the cosine of a[i] and c[j] over temp.
cos_sim_temp(a, c) ==
  [i \in 1..Len(a) |-> [j \in 1..Len(c) |-> [cos |-> <<a[i].v, c[j].v>>, temp |-> temp]]]

\* torch.cat([m1, m2], dim=1)
cat_cols(m1, m2) == [i \in 1..Len(m1) |-> m1[i] \o m2[i]]

\* Mutant: the negatives' columns come first.
SimOf_negFirst(v, g) ==
  IF v = "UnsupervisedSimCSE" THEN cos_sim_temp(g["sent"], g["pos"])
  ELSE cat_cols(cos_sim_temp(g["sent"], g["neg"]), cos_sim_temp(g["sent"], g["pos"]))

\* sim of forward: positives' columns first, then the negatives' (line 72);
\* the unsupervised variant has the positives only (line 138).
SimOf(v, g) ==
  IF v = "UnsupervisedSimCSE" THEN cos_sim_temp(g["sent"], g["pos"])
  ELSE cat_cols(cos_sim_temp(g["sent"], g["pos"]), cos_sim_temp(g["sent"], g["neg"]))

\* torch.arange(sim.size(0))
arange(n) == [i \in 1..n |-> i - 1]

\* nn.CrossEntropyLoss: a target that is no column of the logits raises;
\* otherwise the loss is determined by the logits and the target column of
\* each row.
CrossEntropyLoss(logits, target) ==
  IF \E i \in 1..Len(logits) : target[i] >= Len(logits[i])
  THEN [err |-> TRUE, val |-> <<>>]
  ELSE [err |-> FALSE,
        val |-> [i \in 1..Len(logits) |->
                   [picked |-> logits[i][target[i] + 1], row |-> logits[i]]]]

\* ---------------------------------------------------------------- forward
NoTensors == [s \in Streams |-> <<>>]

NoEmb == [x |-> <<>>, err |-> FALSE, out |-> <<>>]

\* forward up to the "Multi-GPU" test: encode and pool every stream, then
\* either allocate the placeholder lists (lines 47-50) or go on to score.
Forward(r) ==
  /\ pc[r] \in {"idle", "done"}
  /\ calls[r] < MaxCalls
  /\ calls' = [calls EXCEPT ![r] = @ + 1]
  /\ \E local \in {LocalRepr(variant[r], r, calls[r] + 1)} :
      LET gather == ~local.err /\ active
      IN
        /\ repr' = [repr EXCEPT ![r] = local.out]
        /\ pc' = [pc EXCEPT ![r] =
                    IF local.err THEN "error"
                    ELSE IF active THEN "all_gather" ELSE "score"]
        /\ repr_list' =
             [repr_list EXCEPT ![r] =
                [s \in Streams |->
                   IF gather /\ local.out[s] # <<>>
                   THEN [q \in Ranks |-> zeros_like(local.out[s])]
                   ELSE <<>>]]
        /\ gathered' = [gathered EXCEPT ![r] =
                          IF local.err \/ active THEN NoTensors ELSE local.out]
  /\ gi' = [gi EXCEPT ![r] = 1]
  /\ sim' = [sim EXCEPT ![r] = <<>>]
  /\ label' = [label EXCEPT ![r] = <<>>]
  /\ loss' = [loss EXCEPT ![r] = <<>>]
  /\ UNCHANGED <<active, world, variant, bsz, cfg, issued, emb, prefixVars>>

\* dist.all_gather(tensor_list=repr_list_<s>, tensor=repr_<s>.contiguous()),
\* entered: the process contributes its tensor and blocks.
AllGatherIssue(r) ==
  /\ pc[r] = "all_gather"
  /\ LET s == GatherStream(r)
     IN issued' = [issued EXCEPT ![r] =
                     Append(@, [stream |-> s, tensor |-> contiguous(repr[r][s])])]
  /\ pc' = [pc EXCEPT ![r] = "blocked"]
  /\ UNCHANGED <<active, world, variant, bsz, cfg, calls, gi, repr, repr_list,
                 gathered, sim, label, loss, emb, prefixVars>>

\* The collective returns on process r once every process of the group has
\* issued its matching (k-th) call: placeholder q holds what rank q sent.
AllGatherComplete(r) ==
  /\ pc[r] = "blocked"
  /\ LET k == Len(issued[r])
         s == GatherStream(r)
     IN /\ \A q \in Ranks : Len(issued[q]) >= k
        /\ \A q \in Ranks : Len(issued[q][k].tensor) = Len(repr[r][s])
        /\ repr_list' = [repr_list EXCEPT ![r][s] =
                           [q \in Ranks |-> Received(issued[q][k].tensor)]]
  /\ gi' = [gi EXCEPT ![r] = @ + 1]
  /\ pc' = [pc EXCEPT ![r] =
              IF gi[r] = Len(StreamsOf(variant[r])) THEN "grad_fn" ELSE "all_gather"]
  /\ UNCHANGED <<active, world, variant, bsz, cfg, calls, repr, gathered, sim,
                 label, loss, issued, emb, prefixVars>>

\* "Grad Fn" and the concatenation (lines 57-65): the own slot is replaced
\* by the local representation, then every list is concatenated in rank order.
GradFnCat(r) ==
  /\ pc[r] = "grad_fn"
  /\ \E lists \in {[s \in Streams |->
                       IF repr_list[r][s] = <<>> THEN <<>>
                       ELSE [repr_list[r][s] EXCEPT ![OwnSlot(r)] = repr[r][s]]]} :
       /\ repr_list' = [repr_list EXCEPT ![r] = lists]
       /\ gathered' = [gathered EXCEPT ![r] =
                         [s \in Streams |->
                            IF lists[s] = <<>> THEN <<>> ELSE cat(lists[s], world)]]
  /\ pc' = [pc EXCEPT ![r] = "score"]
  /\ UNCHANGED <<active, world, variant, bsz, cfg, calls, gi, repr, sim, label,
                 loss, issued, emb, prefixVars>>

\* Cosine similarity, labels and loss (lines 67-76, 137-144, 252-261).
Score(r) ==
  /\ pc[r] = "score"
  /\ \E m \in {SimOf(variant[r], gathered[r])} :
     \E l \in {arange(Len(m))} :
     \E ce \in {CrossEntropyLoss(m, l)} :
       /\ sim' = [sim EXCEPT ![r] = m]
       /\ label' = [label EXCEPT ![r] = l]
       /\ loss' = [loss EXCEPT ![r] = ce.val]
       /\ pc' = [pc EXCEPT ![r] = IF ce.err THEN "error" ELSE "done"]
  /\ UNCHANGED <<active, world, variant, bsz, cfg, calls, gi, repr, repr_list,
                 gathered, issued, emb, prefixVars>>

\* get_embedding(x), called between forward calls on one of the batches.
GetEmbedding(r) ==
  /\ pc[r] \in {"idle", "done"}
  /\ \E s \in Streams :
       LET x == Batch(r, s, 1)
           e == get_embedding(variant[r], x)
       IN emb' = [emb EXCEPT ![r] = [x |-> x, err |-> e.err, out |-> e.out]]
  /\ UNCHANGED <<active, world, variant, bsz, cfg, pc, calls, gi, repr, repr_list,
                 gathered, sim, label, loss, issued, prefixVars>>

\* --------------------------------------------------------- specifications
InitProcs ==
  /\ pc = [r \in Ranks |-> "idle"]
  /\ calls = [r \in Ranks |-> 0]
  /\ gi = [r \in Ranks |-> 1]
  /\ repr = [r \in Ranks |-> NoTensors]
  /\ repr_list = [r \in Ranks |-> NoTensors]
  /\ gathered = [r \in Ranks |-> NoTensors]
  /\ sim = [r \in Ranks |-> <<>>]
  /\ label = [r \in Ranks |-> <<>>]
  /\ loss = [r \in Ranks |-> <<>>]
  /\ issued = [r \in Ranks |-> <<>>]
  /\ emb = [r \in Ranks |-> NoEmb]
  /\ batch_size = 0
  /\ past_key_values = NoPrefix

\* A group whose processes all run the same variant, with or without a
\* collective context; the three streams may come with any batch sizes.
Init ==
  /\ active \in BOOLEAN
  /\ world \in (IF active THEN 1..MaxWorld ELSE {1})
  /\ \E v \in Variants : variant = [r \in Ranks |-> v]
  /\ bsz \in [Streams -> 1..MaxBatch]
  /\ cfg = BaseConfig
  /\ InitProcs

Next ==
  \/ \E r \in Ranks : Forward(r)
  \/ \E r \in Ranks : AllGatherIssue(r)
  \/ \E r \in Ranks : AllGatherComplete(r)
  \/ \E r \in Ranks : GradFnCat(r)
  \/ \E r \in Ranks : Score(r)

Spec == Init /\ [][Next]_vars

\* The processes keep running: as long as some process can take a step,
\* a step is eventually taken.
FairSpec == Spec /\ WF_vars(Next)

\* A group under a collective context whose processes may run different
\* variants; every stream has the same batch size, so every tensor handed
\* to a collective has the shape its receivers allocated.
MixedInit ==
  /\ active = TRUE
  /\ world \in 2..MaxWorld
  /\ variant \in [Ranks -> Variants]
  /\ \E B \in 1..MaxBatch : bsz = [s \in Streams |-> B]
  /\ cfg = BaseConfig
  /\ InitProcs

MixedSpec == MixedInit /\ [][Next]_vars

\* One process without a collective context: forward and get_embedding.
LocalInit ==
  /\ active = FALSE
  /\ world = 1
  /\ variant \in [Ranks -> Variants]
  /\ bsz \in [Streams -> 1..MaxBatch]
  /\ cfg = BaseConfig
  /\ InitProcs

LocalNext ==
  \/ \E r \in Ranks : Forward(r)
  \/ \E r \in Ranks : Score(r)
  \/ \E r \in Ranks : GetEmbedding(r)

LocalSpec == LocalInit /\ [][LocalNext]_vars

\* The prefix generator over every base config.
PrefixInit ==
  /\ active = FALSE
  /\ world = 1
  /\ variant = [r \in Ranks |-> "PrefixSupervisedSimCSE"]
  /\ bsz = [s \in Streams |-> 1]
  /\ cfg \in Configs
  /\ InitProcs

PrefixNext == GetPrefix

PrefixSpec == PrefixInit /\ [][PrefixNext]_vars

\* ------------------------------------------------------------ properties
\* Streams the variant of process r uses.
Used(r) == {StreamsOf(variant[r])[k] : k \in 1..Len(StreamsOf(variant[r]))}

\* The batches handed to process r's forward all have the same size.
EqualBatch(r) == \A s, t \in Used(r) : bsz[s] = bsz[t]

\* Values of row i of what process q computed locally for stream s in call c.
LocalValue(q, s, c, i) == LocalRepr(variant[q], q, c).out[s][i].v

\* Process r holds the concatenated representations of its current call.
HasGathered(r) == active /\ gathered[r]["sent"] # <<>>

\* C1: under an active context the gathered tensor of every stream on
\* process r has world*B rows of hidden_size columns, and rows q*B+1..q*B+B
\* (rows q*B..q*B+B-1 counted from 0) hold the values of rank q's local
\* representation, for every rank q; with world = 1 the gathered tensor has
\* the values of the local input.
C1_RankOrderConcat ==
  \A r \in Ranks : HasGathered(r) =>
    \A s \in Used(r) :
      /\ Len(gathered[r][s]) = world * bsz[s]
      /\ \A i \in 1..Len(gathered[r][s]) : Len(gathered[r][s][i].v) = cfg.hidden_size
      /\ \A q \in Ranks : \A i \in 1..bsz[s] :
           gathered[r][s][q * bsz[s] + i].v = LocalValue(q, s, calls[r], i)
      /\ world = 1 => contiguous(gathered[r][s]) = contiguous(repr[r][s])

C1_Witness ==
  /\ active /\ world >= 2 /\ bsz["sent"] >= 2
  /\ \E r \in Ranks : r > 0 /\ pc[r] = "score" /\ HasGathered(r)

\* C2: once forward has overwritten the own slot, in every stream's list
\* exactly slice r is the local gradient-connected representation itself and
\* every other slice is a value received from the exchange with no gradient
\* path; the same holds row-wise in the concatenation.
C2_OwnSliceKeepsGrad ==
  \A r \in Ranks : HasGathered(r) =>
    \A s \in Used(r) :
      /\ repr_list[r][s][r] = repr[r][s]
      /\ \A i \in 1..Len(repr[r][s]) : repr[r][s][i].g
      /\ \A q \in Ranks \ {r} :
           /\ \A i \in 1..Len(repr_list[r][s][q]) : ~repr_list[r][s][q][i].g
           /\ contiguous(repr_list[r][s][q]) = issued[q][Len(issued[r]) - Len(StreamsOf(variant[r])) + StreamIdx(s) + 1].tensor
      /\ \A i \in 1..Len(gathered[r][s]) :
           gathered[r][s][i].g <=> (i > r * bsz[s] /\ i <= r * bsz[s] + bsz[s])

C2_Witness ==
  /\ active /\ world >= 2
  /\ \E r \in Ranks : /\ r > 0 /\ pc[r] = "score" /\ HasGathered(r)
                      /\ variant[r] = "PrefixSupervisedSimCSE"
                      /\ ~gathered[r]["neg"][1].g
                      /\ gathered[r]["neg"][r * bsz["neg"] + 1].g

\* The k-th all_gather of every process is for the stream the fixed order
\* gives, the same on every process.
Aligned ==
  \A r \in Ranks : \A k \in 1..Len(issued[r]) :
    /\ issued[r][k].stream =
         StreamsOf(variant[r])[((k - 1) % Len(StreamsOf(variant[r]))) + 1]
    /\ \A q \in Ranks : k <= Len(issued[q]) => issued[q][k].stream = issued[r][k].stream

Terminated(r) == pc[r] = "error" \/ (pc[r] = "done" /\ calls[r] = MaxCalls)

Returned(r) == pc[r] = "done" /\ calls[r] = MaxCalls /\ loss[r] # <<>>

MixedGroup ==
  \E p, q \in Ranks : variant[p] = "UnsupervisedSimCSE" /\ variant[q] # "UnsupervisedSimCSE"

\* The concatenation process r scores holds, for some rank q, rows that are
\* not what q computed for that stream in that call.
GatheredMisaligned(r) ==
  \E s \in Used(r) : \E q \in Ranks : \E i \in 1..bsz[s] :
    \/ s \notin Used(q)
    \/ gathered[r][s][q * bsz[s] + i].v # LocalValue(q, s, calls[r], i)

\* C4: in a group under a collective context where one process gathers two
\* streams per call and another three, no process ever gets an error; every
\* call that returns, other than the first call of a two-stream process,
\* has scored misaligned gathered data; and when nothing can move any more
\* some process is blocked in an all_gather that nobody will match.
C4_MismatchHangsOrMisaligns ==
  MixedGroup =>
    /\ \A r \in Ranks : pc[r] # "error"
    /\ \A r \in Ranks :
         (pc[r] = "done" /\ (variant[r] # "UnsupervisedSimCSE" \/ calls[r] >= 2))
           => GatheredMisaligned(r)
    /\ ~(ENABLED Next) => \E r \in Ranks : pc[r] = "blocked"

C4_Witness ==
  /\ MixedGroup
  /\ ~(ENABLED Next)
  /\ \E r \in Ranks : pc[r] = "blocked"
  /\ \E r \in Ranks : pc[r] = "done" /\ loss[r] # <<>> /\ GatheredMisaligned(r)

\* C5 (as claimed): when the batches handed to a forward call differ in
\* size, the call raises and returns no loss.
C5_MismatchedBatchesRaise ==
  \A r \in Ranks : ~EqualBatch(r) => (pc[r] # "done" /\ loss[r] = <<>>)

\* C6: with hidden_size not divisible by num_attention_heads, a get_prefix
\* call raises and returns no prefix tensors.
C6_NonDividingConfigAborts ==
  (batch_size # 0 /\ cfg.hidden_size % cfg.num_attention_heads # 0) =>
    (past_key_values.status = "error" /\ past_key_values.kv = <<>>)

C6_Witness ==
  /\ batch_size # 0
  /\ cfg.hidden_size % cfg.num_attention_heads # 0
  /\ cfg.hidden_size > cfg.num_attention_heads
  /\ past_key_values.status = "error"

\* C7: with hidden_size H divisible by the head count h, get_prefix returns
\* num_hidden_layers pairs; pair l is slices 2l (key) and 2l+1 (value) of the
\* permuted tensor, each of shape (batch, h, preseqlen, H/h), and element
\* [2l+kv][b][head][p][d] is reparameterization output
\* [b][p][(2l+kv)*H + head*(H/h) + d].
C7_PrefixLayout ==
  (batch_size # 0 /\ cfg.hidden_size % cfg.num_attention_heads = 0) =>
    LET H == cfg.hidden_size
        h == cfg.num_attention_heads
        P == cfg.preseqlen
        hd == H \div h
        out == ReparamOut(cfg, batch_size)
    IN /\ past_key_values.status = "ok"
       /\ Len(past_key_values.kv) = cfg.num_hidden_layers
       /\ \A l \in 0..(cfg.num_hidden_layers - 1) :
            /\ past_key_values.kv[l + 1].shape = <<2, batch_size, h, P, hd>>
            /\ \A kv \in 0..1 : \A b \in 0..(batch_size - 1) : \A head \in 0..(h - 1) :
                 \A p \in 0..(P - 1) : \A d \in 0..(hd - 1) :
                   At(past_key_values.kv[l + 1], <<kv, b, head, p, d>>)
                     = At(out, <<b, p, (2 * l + kv) * H + head * hd + d>>)

C7_Witness ==
  /\ batch_size >= 2
  /\ cfg.num_attention_heads >= 2 /\ cfg.hidden_size = 2 * cfg.num_attention_heads
  /\ cfg.num_hidden_layers >= 2 /\ cfg.preseqlen >= 2
  /\ past_key_values.status = "ok"

\* C8: when forward returns on batches of matching size, the labels are
\* 0..N-1 with N the number of gathered anchors (world*B under an active
\* context), and the target column of row i is the similarity of anchor i
\* to the positive of the same example of the same process.
C8_DiagonalLabels ==
  \A r \in Ranks : (pc[r] = "done" /\ EqualBatch(r)) =>
    LET B == bsz["sent"]
        N == (IF active THEN world ELSE 1) * B
        owner(q) == IF active THEN q ELSE r
    IN /\ label[r] = [i \in 1..N |-> i - 1]
       /\ Len(sim[r]) = N
       /\ \A q \in 0..((N \div B) - 1) : \A j \in 1..B :
            sim[r][q * B + j][label[r][q * B + j] + 1].cos
              = <<LocalValue(owner(q), "sent", calls[r], j),
                  LocalValue(owner(q), "pos", calls[r], j)>>

C8_Witness ==
  /\ active /\ world >= 2 /\ bsz["sent"] >= 2
  /\ \E r \in Ranks : /\ pc[r] = "done" /\ EqualBatch(r) /\ calls[r] = 2
                      /\ variant[r] = "SupervisedSimCSE"
                      /\ Len(sim[r][1]) = 2 * Len(label[r])

\* C9: get_embedding of the unsupervised variant returns, for each example,
\* the encoder's hidden state at position 0 with no projection applied,
\* while every representation its forward computes is the projection (mlp)
\* of that hidden state, which differs from it.
C9_EmbeddingSkipsMlp ==
  \A r \in Ranks : variant[r] = "UnsupervisedSimCSE" =>
    /\ emb[r].x # <<>> =>
         /\ ~emb[r].err
         /\ emb[r].out = [b \in 1..Len(emb[r].x) |->
                            [v |-> pretrained(emb[r].x, NoPrefix).last_hidden_state[b][0],
                             g |-> TRUE]]
    /\ \A s \in Used(r) : repr[r][s] # <<>> =>
         LET first == FirstToken(pretrained(Batch(r, s, calls[r]), NoPrefix))
         IN /\ repr[r][s] = mlp(first)
            /\ \A b \in 1..Len(first) : repr[r][s][b].v # first[b].v

C9_Witness ==
  \E r \in Ranks : /\ variant[r] = "UnsupervisedSimCSE"
                   /\ emb[r].x # <<>> /\ Len(emb[r].out) >= 2
                   /\ pc[r] = "done"

\* C10: processes that have returned from the same forward call under an
\* active context hold gathered tensors with the same values, the same
\* similarity matrix and labels, and the same loss.
C10_SameLossEverywhere ==
  \A r, q \in Ranks :
    (active /\ pc[r] = "done" /\ pc[q] = "done" /\ calls[r] = calls[q]) =>
      /\ \A s \in Used(r) : contiguous(gathered[r][s]) = contiguous(gathered[q][s])
      /\ sim[r] = sim[q]
      /\ label[r] = label[q]
      /\ loss[r] = loss[q]

C10_Witness ==
  /\ active /\ world >= 2
  /\ \E r, q \in Ranks : /\ r # q /\ pc[r] = "done" /\ pc[q] = "done"
                         /\ calls[r] = calls[q] /\ loss[r] # <<>>

====
